---- MODULE Spec2Model ----
(***************************************************************************)
(* Frontend message encoders of rust-postgres-protocol                     *)
(* (src/message/frontend.rs): write_body, write_cstr, from_usize and the   *)
(* nine Message::write implementations.                                    *)
(*                                                                         *)
(* Data representation.                                                    *)
(*   usize    a natural number as little-endian base-2^15 limbs without a  *)
(*            leading zero limb (<<>> is 0).  TLC's integers are 32 bits   *)
(*            wide, and the lengths compared against i32::max_value() go   *)
(*            beyond them.                                                 *)
(*   Vec<u8>, &[u8], &str                                                  *)
(*            the run-length encoding of the bytes: a sequence of runs     *)
(*            [b |-> byte, end |-> usize], end the offset just after the   *)
(*            run, the runs non-empty and neighbouring runs holding        *)
(*            different bytes.  The encoding is canonical, so equality of  *)
(*            two encodings is equality of the byte strings.               *)
(*   &[T]     a sequence of runs [v |-> element, n |-> usize], n > 0.      *)
(*   Option   <<>> is None, <<x>> is Some(x).                              *)
(*   Result   [buf |-> the buffer afterwards, err |-> OK or the message].   *)
(***************************************************************************)
EXTENDS Integers, Sequences, FiniteSets, TLC

VARIABLES buf, pre, msg, res, hist

vars == <<buf, pre, msg, res, hist>>

-----------------------------------------------------------------------------
(* usize arithmetic *)

Base == 2^15

RECURSIVE N(_)
N(i) == IF i = 0 THEN <<>> ELSE <<i % Base>> \o N(i \div Base)

RECURSIVE NNorm(_)
NNorm(a) ==
    IF a = <<>> THEN <<>>
    ELSE IF a[Len(a)] = 0 THEN NNorm(SubSeq(a, 1, Len(a) - 1))
    ELSE a

Limb(a, i) == IF i <= Len(a) THEN a[i] ELSE 0

RECURSIVE NAddC(_, _, _)
NAddC(a, b, c) ==
    IF a = <<>> /\ b = <<>> THEN (IF c = 0 THEN <<>> ELSE <<c>>)
    ELSE LET s == Limb(a, 1) + Limb(b, 1) + c
         IN  <<s % Base>> \o NAddC(IF a = <<>> THEN <<>> ELSE Tail(a),
                                   IF b = <<>> THEN <<>> ELSE Tail(b),
                                   s \div Base)

NAdd(a, b) == NAddC(a, b, 0)

RECURSIVE NLeq(_, _)
NLeq(a, b) ==
    IF Len(a) # Len(b) THEN Len(a) < Len(b)
    ELSE IF a = <<>> THEN TRUE
    ELSE IF a[Len(a)] # b[Len(b)] THEN a[Len(a)] < b[Len(b)]
    ELSE NLeq(SubSeq(a, 1, Len(a) - 1), SubSeq(b, 1, Len(b) - 1))

NGt(a, b) == ~NLeq(a, b)

NLt(a, b) == NLeq(a, b) /\ a # b

RECURSIVE NSubB(_, _, _)
NSubB(a, b, c) ==
    IF a = <<>> THEN <<>>
    ELSE LET d == a[1] - Limb(b, 1) - c
         IN  <<d % Base>> \o NSubB(Tail(a),
                                   IF b = <<>> THEN <<>> ELSE Tail(b),
                                   IF d < 0 THEN 1 ELSE 0)

\* a - b for a >= b
NSub(a, b) == NNorm(NSubB(a, b, 0))

RECURSIVE NMulLimb(_, _, _)
NMulLimb(a, d, c) ==
    IF a = <<>> THEN (IF c = 0 THEN <<>> ELSE <<c>>)
    ELSE LET p == a[1] * d + c
         IN  <<p % Base>> \o NMulLimb(Tail(a), d, p \div Base)

\* a * Base
NShift(a) == IF a = <<>> THEN <<>> ELSE <<0>> \o a

RECURSIVE NMul(_, _)
NMul(a, b) ==
    IF a = <<>> \/ b = <<>> THEN <<>>
    ELSE NAdd(NNorm(NMulLimb(a, b[1], 0)), NShift(NMul(a, Tail(b))))

\* the value of a usize that fits 31 bits
RECURSIVE NInt(_)
NInt(a) == IF a = <<>> THEN 0 ELSE a[1] + Base * NInt(Tail(a))

-----------------------------------------------------------------------------
(* byte strings: Vec<u8>, &[u8], &str *)

Run(b, n) == IF n = <<>> THEN <<>> ELSE <<[b |-> b, end |-> n]>>

\* Vec::len, slice::len, str::len
VLen(v) == IF v = <<>> THEN <<>> ELSE v[Len(v)].end

\* the runs of w, moved d bytes on
Shifted(w, d) == [i \in 1..Len(w) |-> [b |-> w[i].b, end |-> NAdd(w[i].end, d)]]

\* Vec::extend_from_slice
extend_from_slice(v, w) ==
    IF v = <<>> THEN w
    ELSE IF w = <<>> THEN v
    ELSE IF v[Len(v)].b = w[1].b
         THEN SubSeq(v, 1, Len(v) - 1) \o Shifted(w, VLen(v))
    ELSE v \o Shifted(w, VLen(v))

\* Vec::push
push(v, b) == extend_from_slice(v, Run(b, N(1)))

\* the places where a run of the literal byte sequence s ends
RunEnds(s) == {i \in 1..Len(s) : i = Len(s) \/ s[i] # s[i + 1]}

\* the k-th smallest member of the set e of integers
Kth(e, k) == CHOOSE x \in e : Cardinality({y \in e : y <= x}) = k

\* the byte string of a literal sequence of bytes
Bytes(s) ==
    [k \in 1..Cardinality(RunEnds(s)) |->
        [b |-> s[Kth(RunEnds(s), k)], end |-> N(Kth(RunEnds(s), k))]]

\* the number of runs of v that end within the first k bytes
RunsWithin(v, k) == Cardinality({i \in 1..Len(v) : NLeq(v[i].end, k)})

\* the runs of v before index j and the k - v[j - 1].end first bytes of run j
TakeAt(v, j, k) ==
    IF j > Len(v) THEN v
    ELSE IF k = (IF j = 1 THEN <<>> ELSE v[j - 1].end) THEN SubSeq(v, 1, j - 1)
    ELSE SubSeq(v, 1, j - 1) \o <<[b |-> v[j].b, end |-> k]>>

\* v[..k], for k <= v.len()
VTake(v, k) == TakeAt(v, RunsWithin(v, k) + 1, k)

\* the runs of v from index j on, k bytes taken off their ends
DropAt(v, j, k) ==
    [i \in 1..(Len(v) - j + 1) |->
        [b |-> v[j + i - 1].b, end |-> NSub(v[j + i - 1].end, k)]]

\* v[k..], for k <= v.len()
VDrop(v, k) == DropAt(v, RunsWithin(v, k) + 1, k)

\* v[i..j]
VSlice(v, i, j) == VTake(VDrop(v, i), NSub(j, i))

\* v[i], for i < v.len()
VAt(v, i) == v[RunsWithin(v, i) + 1].b

\* slice::contains
contains(v, b) == \E i \in 1..Len(v) : v[i].b = b

\* the bytes of pat, n times over
RECURSIVE VRepeat(_, _)
VRepeat(pat, n) ==
    IF pat = <<>> \/ n = <<>> THEN <<>>
    ELSE IF Len(pat) = 1 THEN Run(pat[1].b, NMul(pat[1].end, n))
    ELSE extend_from_slice(pat, VRepeat(pat, NSub(n, N(1))))

\* the bytes as a plain sequence (short strings only)
Flat(v) == [i \in 1..NInt(VLen(v)) |-> VAt(v, N(i - 1))]

\* element slices: &[i16], &[Oid], &[Option<T>]
RECURSIVE SLen(_)
SLen(s) == IF s = <<>> THEN <<>> ELSE NAdd(s[1].n, SLen(Tail(s)))

-----------------------------------------------------------------------------
(* results *)

OK == "Ok"
EmbeddedNull == "string contains embedded null"
ValueTooLarge == "value too large to transmit"

None == <<>>
Some(x) == <<x>>

\* u16::max_value() as usize and i32::max_value() as usize
U16_MAX == NSub(NMul(N(256), N(256)), N(1))
I32_MAX == NSub(NMul(N(65536), N(32768)), N(1))

\* from_usize!(u16) with the bound one too high: 65536 passes (sensitivity of C3)
from_usize_u16_off_by_one(x) ==
    IF NGt(x, NAdd(U16_MAX, N(1))) THEN [err |-> ValueTooLarge]
    ELSE [err |-> OK, val |-> NInt(x)]

\* from_usize!(u16): the checked narrowing of a length to the wire's u16
from_usize_u16(x) ==
    IF NGt(x, U16_MAX) THEN [err |-> ValueTooLarge]
    ELSE [err |-> OK, val |-> NInt(x)]

\* from_usize!(i32) with >= for >: i32::max_value() itself fails (sensitivity of C2)
from_usize_i32_strict(x) ==
    IF ~NLt(x, I32_MAX) THEN [err |-> ValueTooLarge]
    ELSE [err |-> OK, val |-> NInt(x)]

\* from_usize!(i32): the checked narrowing of a length to the wire's i32
from_usize_i32(x) ==
    IF NGt(x, I32_MAX) THEN [err |-> ValueTooLarge]
    ELSE [err |-> OK, val |-> NInt(x)]

-----------------------------------------------------------------------------
(* byteorder's big-endian writers on Vec<u8>; they cannot fail *)

BE16(u) == <<u \div 256, u % 256>>

\* u in 0 .. 2^31 - 1
BE31(u) == <<u \div 16777216, (u \div 65536) % 256, (u \div 256) % 256, u % 256>>

write_u16(v, x) == extend_from_slice(v, Bytes(BE16(x)))

\* two's complement of a 16-bit signed value
write_i16(v, x) == extend_from_slice(v, Bytes(BE16(x % 65536)))

\* two's complement of a 32-bit signed value
I32Bytes(x) ==
    IF x >= 0 THEN BE31(x)
    ELSE LET w == BE31((x + 2147483647) + 1)
         IN  <<128 + w[1], w[2], w[3], w[4]>>

write_i32(v, x) == extend_from_slice(v, Bytes(I32Bytes(x)))

\* a 32-bit unsigned value, held as limbs l0 + l1 * 2^15 + l2 * 2^30
U32Bytes(x) ==
    LET l0 == Limb(x, 1)
        l1 == Limb(x, 2)
        l2 == Limb(x, 3)
    IN  <<l1 \div 512 + l2 * 64,
          (l1 \div 2) % 256,
          l0 \div 256 + (l1 % 2) * 128,
          l0 % 256>>

write_u32(v, x) == extend_from_slice(v, Bytes(U32Bytes(x)))

-----------------------------------------------------------------------------------------------------------------------------------------------------
(* WriteCStr for Vec<u8> *)

\* write_cstr looking for the zero byte at the end of the text only
\* (sensitivity of C4)
write_cstr_checks_last_byte(self, s) ==
    IF s # <<>> /\ s[Len(s)].b = 0 THEN [buf |-> self, err |-> EmbeddedNull]
    ELSE [buf |-> push(extend_from_slice(self, s), 0), err |-> OK]

\* write_cstr checking after it has written (sensitivity of C5)
write_cstr_checks_after(self, s) ==
    IF contains(s, 0) THEN [buf |-> push(extend_from_slice(self, s), 0), err |-> EmbeddedNull]
    ELSE [buf |-> push(extend_from_slice(self, s), 0), err |-> OK]

\* write_cstr without self.push(0) (sensitivity of C9)
write_cstr_no_terminator(self, s) ==
    IF contains(s, 0) THEN [buf |-> self, err |-> EmbeddedNull]
    ELSE [buf |-> extend_from_slice(self, s), err |-> OK]

write_cstr(self, s) ==
    IF contains(s, 0) THEN [buf |-> self, err |-> EmbeddedNull]
    ELSE [buf |-> push(extend_from_slice(self, s), 0), err |-> OK]

-----------------------------------------------------------------------------
(* try!: each step takes the Result so far and returns at once on an Err *)

\* try!(buf.write_cstr(s))
try_cstr(r, s) == IF r.err # OK THEN r ELSE write_cstr(r.buf, s)

\* try!(buf.write_u16::<BigEndian>(num)) for num = try!(u16::from_usize(len))
put_count(b, num) ==
    IF num.err # OK THEN [buf |-> b, err |-> num.err]
    ELSE [buf |-> write_u16(b, num.val), err |-> OK]

try_count(r, len) == IF r.err # OK THEN r ELSE put_count(r.buf, from_usize_u16(len))

\* for &format in self.formats { try!(buf.write_i16::<BigEndian>(format)) }
RECURSIVE write_formats(_, _)
write_formats(b, formats) ==
    IF formats = <<>> THEN b
    ELSE write_formats(
            extend_from_slice(b, VRepeat(write_i16(<<>>, formats[1].v), formats[1].n)),
            Tail(formats))

try_formats(r, formats) ==
    IF r.err # OK THEN r ELSE [buf |-> write_formats(r.buf, formats), err |-> OK]

\* Some(ref value): the length, narrowed, then the bytes
write_some(b, value_len, value) ==
    IF value_len.err # OK THEN [buf |-> b, err |-> value_len.err]
    ELSE [buf |-> extend_from_slice(write_i32(b, value_len.val), value), err |-> OK]

\* the match writing None as the length 0 (sensitivity of C10)
write_value_null_as_empty(b, value) ==
    IF value = None THEN [buf |-> write_i32(b, 0), err |-> OK]
    ELSE write_some(b, from_usize_i32(VLen(value[1])), value[1])

\* match *value { None => ..., Some(ref value) => ... }
write_value(b, value) ==
    IF value = None THEN [buf |-> write_i32(b, -1), err |-> OK]
    ELSE write_some(b, from_usize_i32(VLen(value[1])), value[1])

\* n equal values one after the other; the first of them fails if any does
write_value_run(b, one, n) ==
    IF one.err # OK THEN [buf |-> b, err |-> one.err]
    ELSE [buf |-> extend_from_slice(b, VRepeat(one.buf, n)), err |-> OK]

\* for value in self.values { ... }
RECURSIVE write_values(_, _)
write_values(r, values) ==
    IF r.err # OK \/ values = <<>> THEN r
    ELSE write_values(
            write_value_run(r.buf, write_value(<<>>, values[1].v), values[1].n),
            Tail(values))

\* for &param_type in self.param_types { try!(buf.write_u32::<BigEndian>(param_type)) }
RECURSIVE write_param_types(_, _)
write_param_types(b, types) ==
    IF types = <<>> THEN b
    ELSE write_param_types(
            extend_from_slice(b, VRepeat(write_u32(<<>>, types[1].v), types[1].n)),
            Tail(types))

try_param_types(r, types) ==
    IF r.err # OK THEN r ELSE [buf |-> write_param_types(r.buf, types), err |-> OK]

\* try!(buf.write_i32::<BigEndian>(x))
try_i32(r, x) == IF r.err # OK THEN r ELSE [buf |-> write_i32(r.buf, x), err |-> OK]

-----------------------------------------------------------------------------
(* the payload closures the encoders hand to write_body; the innermost call *)
(* is the first statement of the closure                                   *)

\* portal, statement, formats, values, result_formats
Bind_closure(self, b) ==
    try_formats(
      try_count(
        write_values(
          try_count(
            try_formats(
              try_count(
                try_cstr(write_cstr(b, self.portal), self.statement),
                SLen(self.formats)),
              self.formats),
            SLen(self.values)),
          self.values),
        SLen(self.result_formats)),
      self.result_formats)

CancelRequestCode == 80877102

CancelRequest_closure(self, b) ==
    [buf |-> write_i32(write_i32(write_i32(b, CancelRequestCode), self.process_id),
                       self.secret_key),
     err |-> OK]

Close_closure(self, b) == write_cstr(push(b, self.variant), self.name)

CopyData_closure(self, b) == [buf |-> extend_from_slice(b, self.data), err |-> OK]

CopyDone_closure(self, b) == [buf |-> b, err |-> OK]

CopyFail_closure(self, b) == write_cstr(b, self.message)

Describe_closure(self, b) == write_cstr(push(b, self.variant), self.name)

Execute_closure(self, b) == try_i32(write_cstr(b, self.portal), self.max_rows)

\* Parse's closure narrowing the count before it writes the texts
\* (sensitivity of C7)
Parse_closure_counts_first(self, b) ==
    IF from_usize_u16(SLen(self.param_types)).err # OK
    THEN [buf |-> b, err |-> ValueTooLarge]
    ELSE try_param_types(
           try_count(
             try_cstr(write_cstr(b, self.name), self.query),
             SLen(self.param_types)),
           self.param_types)

\* name, query, param_types
Parse_closure(self, b) ==
    try_param_types(
      try_count(
        try_cstr(write_cstr(b, self.name), self.query),
        SLen(self.param_types)),
      self.param_types)

\* f(buf): the closure of the message kind
closure(self, b) ==
    CASE self.kind = "Bind" -> Bind_closure(self, b)
      [] self.kind = "CancelRequest" -> CancelRequest_closure(self, b)
      [] self.kind = "Close" -> Close_closure(self, b)
      [] self.kind = "CopyData" -> CopyData_closure(self, b)
      [] self.kind = "CopyDone" -> CopyDone_closure(self, b)
      [] self.kind = "CopyFail" -> CopyFail_closure(self, b)
      [] self.kind = "Describe" -> Describe_closure(self, b)
      [] self.kind = "Execute" -> Execute_closure(self, b)
      [] self.kind = "Parse" -> Parse_closure(self, b)

-----------------------------------------------------------------------------
(* write_body: reserve four bytes, run the closure, patch the length *)

\* Cursor::new(&mut v[base..base + 4]).write_i32::<BigEndian>(size)
patch_i32(v, base, size) ==
    extend_from_slice(
        extend_from_slice(VTake(v, base), Bytes(I32Bytes(size))),
        VDrop(v, NAdd(base, N(4))))

\* try!(...write_i32(size)) for size = try!(i32::from_usize(buf.len() - base))
put_size(v, base, size) ==
    IF size.err # OK THEN [buf |-> v, err |-> size.err]
    ELSE [buf |-> patch_i32(v, base, size.val), err |-> OK]

\* the end of write_body with the four bytes of the length field left out of
\* the size (sensitivity of C1)
write_body_end_payload_only(base, r) ==
    IF r.err # OK THEN r
    ELSE put_size(r.buf, base, from_usize_i32(NSub(NSub(VLen(r.buf), base), N(4))))

\* the end of write_body truncating the buffer to base when the closure fails
\* (sensitivity of C6)
write_body_end_rolls_back(base, r) ==
    IF r.err # OK THEN [buf |-> VTake(r.buf, base), err |-> r.err]
    ELSE put_size(r.buf, base, from_usize_i32(NSub(VLen(r.buf), base)))

\* the statements after try!(f(buf)); r is the closure's Result
write_body_end(base, r) ==
    IF r.err # OK THEN r
    ELSE put_size(r.buf, base, from_usize_i32(NSub(VLen(r.buf), base)))

\* write_body taking the start of the buffer for base (sensitivity of C8)
write_body_from_start(b, self) ==
    write_body_end(<<>>, closure(self, extend_from_slice(b, Bytes(<<0, 0, 0, 0>>))))

write_body(b, self) ==
    write_body_end(VLen(b), closure(self, extend_from_slice(b, Bytes(<<0, 0, 0, 0>>))))

-----------------------------------------------------------------------------
(* Message::write *)

TagBind == 66
TagClose == 67
TagCopyData == 100
TagCopyDone == 99
TagCopyFail == 102
TagDescribe == 68
TagExecute == 69
TagParse == 80

Bind_write(self, b) == write_body(push(b, TagBind), self)
CancelRequest_write(self, b) == write_body(b, self)
Close_write(self, b) == write_body(push(b, TagClose), self)
CopyData_write(self, b) == write_body(push(b, TagCopyData), self)
CopyDone_write(self, b) == write_body(push(b, TagCopyDone), self)
CopyFail_write(self, b) == write_body(push(b, TagCopyFail), self)
Describe_write(self, b) == write_body(push(b, TagDescribe), self)
Execute_write(self, b) == write_body(push(b, TagExecute), self)
Parse_write(self, b) == write_body(push(b, TagParse), self)

\* the Message trait's dispatch
write(self, b) ==
    CASE self.kind = "Bind" -> Bind_write(self, b)
      [] self.kind = "CancelRequest" -> CancelRequest_write(self, b)
      [] self.kind = "Close" -> Close_write(self, b)
      [] self.kind = "CopyData" -> CopyData_write(self, b)
      [] self.kind = "CopyDone" -> CopyDone_write(self, b)
      [] self.kind = "CopyFail" -> CopyFail_write(self, b)
      [] self.kind = "Describe" -> Describe_write(self, b)
      [] self.kind = "Execute" -> Execute_write(self, b)
      [] self.kind = "Parse" -> Parse_write(self, b)

-----
(* the messages and buffers the encoders are run on *)

MaxStrLen == 3
MaxCalls == 2

Bind(portal, statement, formats, values, result_formats) ==
    [kind |-> "Bind", portal |-> portal, statement |-> statement,
     formats |-> formats, values |-> values, result_formats |-> result_formats]
CancelRequest(process_id, secret_key) ==
    [kind |-> "CancelRequest", process_id |-> process_id, secret_key |-> secret_key]
Close(variant, name) == [kind |-> "Close", variant |-> variant, name |-> name]
CopyData(data) == [kind |-> "CopyData", data |-> data]
CopyDone == [kind |-> "CopyDone"]
CopyFail(message) == [kind |-> "CopyFail", message |-> message]
Describe(variant, name) == [kind |-> "Describe", variant |-> variant, name |-> name]
Execute(portal, max_rows) == [kind |-> "Execute", portal |-> portal, max_rows |-> max_rows]
Parse(name, query, param_types) ==
    [kind |-> "Parse", name |-> name, query |-> query, param_types |-> param_types]

\* a slice of n equal elements, and slices one after the other
Rep(v, n) == IF n = <<>> THEN <<>> ELSE <<[v |-> v, n |-> n]>>
Elems(s) == [i \in 1..Len(s) |-> [v |-> s[i], n |-> N(1)]]

\* texts over "a" and the zero byte up to MaxStrLen bytes, and two over more letters
Strs ==
    {Bytes(s) : s \in UNION {[1..n -> {0, 97}] : n \in 0..MaxStrLen}}
    \cup {Bytes(<<97, 98>>), Bytes(<<98, 0, 97>>)}
ShortStrs == {<<>>, Bytes(<<115>>), Bytes(<<0>>)}
StrPairs == (Strs \X ShortStrs) \cup (ShortStrs \X Strs)

Formats ==
    {<<>>, Elems(<<1>>), Elems(<<-2, 258>>),
     Rep(0, U16_MAX), Rep(0, NAdd(U16_MAX, N(1)))}
ResultFormats == {<<>>, Elems(<<1, 0>>), Rep(-1, NAdd(U16_MAX, N(1)))}

Values ==
    {<<>>,
     Elems(<<None>>),
     Elems(<<Some(<<>>)>>),
     Elems(<<None, Some(Bytes(<<255, 0>>)), Some(<<>>), Some(Bytes(<<7>>))>>),
     Elems(<<Some(Run(5, N(300)))>>),
     Rep(None, U16_MAX),
     Rep(None, NAdd(U16_MAX, N(1))),
     Rep(Some(Bytes(<<1, 2>>)), N(3)),
     Elems(<<Some(Run(7, NSub(I32_MAX, N(16))))>>),
     Elems(<<Some(Run(7, I32_MAX))>>),
     Elems(<<Some(Run(7, NAdd(I32_MAX, N(1))))>>),
     Elems(<<Some(Bytes(<<1>>)), Some(Run(7, NAdd(I32_MAX, N(1)))), None>>),
     Rep(Some(Run(7, NMul(N(32768), N(32768)))), N(2))}

ParamTypes ==
    {<<>>, Elems(<<N(23)>>), Elems(<<N(16909060), NSub(NMul(N(65536), N(65536)), N(1))>>),
     Rep(<<>>, U16_MAX), Rep(<<>>, NAdd(U16_MAX, N(1)))}

Datas ==
    {<<>>, Bytes(<<1, 2, 3>>), Bytes(<<0>>), Run(7, N(300)),
     Run(7, NSub(I32_MAX, N(5))), Run(7, NSub(I32_MAX, N(4))), Run(7, NSub(I32_MAX, N(3))),
     Run(7, I32_MAX), Run(7, NAdd(I32_MAX, N(1)))}

\* Bind's fields <<texts, formats, values, result_formats>>: every pair of texts
\* with a few short sequences, and every triple of sequences with a few pairs of
\* texts
BindInputs ==
    (StrPairs \X {<<>>, Elems(<<1>>)} \X {<<>>, Elems(<<None, Some(Bytes(<<7, 7>>))>>)}
              \X {<<>>})
    \cup ({<<<<>>, <<>>>>, <<Bytes(<<112, 0>>), Bytes(<<115>>)>>,
           <<Bytes(<<112>>), Bytes(<<0>>)>>}
          \X Formats \X Values \X ResultFormats)

Variants == {83, 80, 0}
I32s == {0, 1234, 5678, -1, 2147483647, -2147483647}
MaxRows == {0, 258, -1, 2147483647}

\* what the caller's buffer may hold before a call: nothing, a complete frame,
\* the fragment a failed call left
InitBufs == {<<>>, Bytes(<<99, 0, 0, 0, 4>>), Bytes(<<66, 0, 0, 0, 0, 97>>)}

-----------------------------------------------------------------------------
(* one call on a buffer *)

NotCalled == "NotCalled"

Init ==
    /\ buf \in InitBufs
    /\ pre = buf
    /\ msg = [kind |-> "None"]
    /\ res = NotCalled
    /\ hist = <<>>

\* the call's effect: r is the Result of writing m to buf
Call(m, r) ==
    /\ buf' = r.buf
    /\ res' = r.err
    /\ pre' = buf
    /\ msg' = m
    /\ hist' = Append(hist, [msg |-> m, res |-> r.err])

WriteBind ==
    /\ hist = <<>>
    /\ \E i \in BindInputs :
          Call(Bind(i[1][1], i[1][2], i[2], i[3], i[4]),
               Bind_write(Bind(i[1][1], i[1][2], i[2], i[3], i[4]), buf))

WriteCancelRequest ==
    /\ hist = <<>>
    /\ \E pid \in I32s, key \in I32s :
          Call(CancelRequest(pid, key), CancelRequest_write(CancelRequest(pid, key), buf))

WriteClose ==
    /\ hist = <<>>
    /\ \E variant \in Variants, name \in Strs :
          Call(Close(variant, name), Close_write(Close(variant, name), buf))

WriteCopyData ==
    /\ hist = <<>>
    /\ \E data \in Datas : Call(CopyData(data), CopyData_write(CopyData(data), buf))

WriteCopyDone ==
    /\ hist = <<>>
    /\ Call(CopyDone, CopyDone_write(CopyDone, buf))

WriteCopyFail ==
    /\ hist = <<>>
    /\ \E message \in Strs : Call(CopyFail(message), CopyFail_write(CopyFail(message), buf))

WriteDescribe ==
    /\ hist = <<>>
    /\ \E variant \in Variants, name \in Strs :
          Call(Describe(variant, name), Describe_write(Describe(variant, name), buf))

WriteExecute ==
    /\ hist = <<>>
    /\ \E portal \in Strs, max_rows \in MaxRows :
          Call(Execute(portal, max_rows), Execute_write(Execute(portal, max_rows), buf))

WriteParse ==
    /\ hist = <<>>
    /\ \E p \in StrPairs, t \in ParamTypes :
          Call(Parse(p[1], p[2], t), Parse_write(Parse(p[1], p[2], t), buf))

\* write_cstr on the buffer, outside an encoder
CallWriteCStr ==
    /\ hist = <<>>
    /\ \E s \in Strs : Call([kind |-> "write_cstr", s |-> s], write_cstr(buf, s))

Next ==
    \/ WriteBind
    \/ WriteCancelRequest
    \/ WriteClose
    \/ WriteCopyData
    \/ WriteCopyDone
    \/ WriteCopyFail
    \/ WriteDescribe
    \/ WriteExecute
    \/ WriteParse
    \/ CallWriteCStr

Spec == Init /\ [][Next]_vars

-----------------------------------------------------------------------------
(* several calls on one buffer that starts empty *)

SeqBinds ==
    {Bind(Bytes(<<112>>), <<>>, <<>>, <<>>, <<>>),
     Bind(<<>>, Bytes(<<115>>), Elems(<<1, -2>>),
          Elems(<<None, Some(Bytes(<<9, 0>>))>>), Elems(<<1>>)),
     Bind(<<>>, <<>>, <<>>, Rep(None, U16_MAX), <<>>),
     Bind(<<>>, Bytes(<<0>>), <<>>, <<>>, <<>>),
     Bind(<<>>, <<>>, Elems(<<1>>), <<>>, Rep(0, NAdd(U16_MAX, N(1)))),
     Bind(<<>>, <<>>, <<>>, Elems(<<Some(Run(7, NAdd(I32_MAX, N(1))))>>), <<>>)}
SeqParses ==
    {Parse(<<>>, Bytes(<<83, 69, 76, 69, 67, 84, 32, 49>>), <<>>),
     Parse(Bytes(<<97>>), Bytes(<<98>>), Elems(<<N(23), N(16909060)>>)),
     Parse(Bytes(<<97>>), Bytes(<<98, 0>>), <<>>),
     Parse(<<>>, <<>>, Rep(<<>>, NAdd(U16_MAX, N(1))))}
SeqStrs == {Bytes(<<97, 98>>), Bytes(<<97, 0>>)}
SeqDatas == {<<>>, Bytes(<<0, 66, 0>>), Run(0, N(300)), Run(7, I32_MAX)}

InitSeq ==
    /\ buf = <<>>
    /\ pre = <<>>
    /\ msg = [kind |-> "None"]
    /\ res = NotCalled
    /\ hist = <<>>

SeqWriteBind ==
    /\ Len(hist) < MaxCalls
    /\ \E m \in SeqBinds : Call(m, Bind_write(m, buf))

SeqWriteCancelRequest ==
    /\ Len(hist) < MaxCalls
    /\ Call(CancelRequest(1234, 5678), CancelRequest_write(CancelRequest(1234, 5678), buf))

SeqWriteClose ==
    /\ Len(hist) < MaxCalls
    /\ \E name \in SeqStrs \cup {<<>>} :
          Call(Close(83, name), Close_write(Close(83, name), buf))

SeqWriteCopyData ==
    /\ Len(hist) < MaxCalls
    /\ \E data \in SeqDatas : Call(CopyData(data), CopyData_write(CopyData(data), buf))

SeqWriteCopyDone ==
    /\ Len(hist) < MaxCalls
    /\ Call(CopyDone, CopyDone_write(CopyDone, buf))

SeqWriteCopyFail ==
    /\ Len(hist) < MaxCalls
    /\ \E message \in SeqStrs :
          Call(CopyFail(message), CopyFail_write(CopyFail(message), buf))

SeqWriteDescribe ==
    /\ Len(hist) < MaxCalls
    /\ \E name \in SeqStrs : Call(Describe(80, name), Describe_write(Describe(80, name), buf))

SeqWriteExecute ==
    /\ Len(hist) < MaxCalls
    /\ \E portal \in SeqStrs : Call(Execute(portal, 258), Execute_write(Execute(portal, 258), buf))

SeqWriteParse ==
    /\ Len(hist) < MaxCalls
    /\ \E m \in SeqParses : Call(m, Parse_write(m, buf))

NextSeq ==
    \/ SeqWriteBind
    \/ SeqWriteCancelRequest
    \/ SeqWriteClose
    \/ SeqWriteCopyData
    \/ SeqWriteCopyDone
    \/ SeqWriteCopyFail
    \/ SeqWriteDescribe
    \/ SeqWriteExecute
    \/ SeqWriteParse

SpecSeq == InitSeq /\ [][NextSeq]_vars

-----------------------------------------------------------------------------
(* The wire format the encoders are checked against: the frame is an       *)
(* optional tag byte, a four-byte big-endian length that counts itself and *)
(* the payload, and the payload, which is the message's fields in wire     *)
(* order.  A field is [err, bytes]: whether the field can be sent, and the *)
(* bytes it puts on the wire (up to its failure when it cannot).           *)

Wire16(n) == Bytes(<<n \div 256, n % 256>>)

Wire32(n) ==
    Bytes(<<n \div 16777216, (n \div 65536) % 256, (n \div 256) % 256, n % 256>>)

\* a signed 32-bit integer: the unsigned value modulo 2^32
WireI32(x) ==
    IF x >= 0 THEN Wire32(x)
    ELSE extend_from_slice(Bytes(<<128 + ((x + 2147483647) + 1) \div 16777216>>),
                           VDrop(Wire32((x + 2147483647) + 1), N(1)))

\* an unsigned 32-bit integer, as its two 16-bit halves
WireU32(x) ==
    extend_from_slice(Wire16(Limb(x, 2) \div 2 + Limb(x, 3) * 16384),
                      Wire16(Limb(x, 1) + (Limb(x, 2) % 2) * 32768))

FByte(b) == [err |-> OK, bytes |-> Bytes(<<b>>)]
FInt32(x) == [err |-> OK, bytes |-> WireI32(x)]
FRaw(data) == [err |-> OK, bytes |-> data]

FText(s) ==
    IF \E i \in 1..Len(s) : s[i].b = 0 THEN [err |-> EmbeddedNull, bytes |-> <<>>]
    ELSE [err |-> OK, bytes |-> extend_from_slice(s, Bytes(<<0>>))]

RECURSIVE Int16sOnWire(_)
Int16sOnWire(s) ==
    IF s = <<>> THEN <<>>
    ELSE extend_from_slice(VRepeat(Wire16(s[1].v % 65536), s[1].n), Int16sOnWire(Tail(s)))

RECURSIVE OidsOnWire(_)
OidsOnWire(s) ==
    IF s = <<>> THEN <<>>
    ELSE extend_from_slice(VRepeat(WireU32(s[1].v), s[1].n), OidsOnWire(Tail(s)))

TooMany(s) == NGt(SLen(s), N(65535))

FInt16s(s) ==
    IF TooMany(s) THEN [err |-> ValueTooLarge, bytes |-> <<>>]
    ELSE [err |-> OK, bytes |-> extend_from_slice(Wire16(NInt(SLen(s))), Int16sOnWire(s))]

FOids(s) ==
    IF TooMany(s) THEN [err |-> ValueTooLarge, bytes |-> <<>>]
    ELSE [err |-> OK, bytes |-> extend_from_slice(Wire16(NInt(SLen(s))), OidsOnWire(s))]

\* a present value whose length does not fit the signed 32-bit length
TooLong(value) == value # None /\ NGt(VLen(value[1]), N(2147483647))

\* one parameter value: NULL is the length -1, a present value its length and bytes
ValueOnWire(value) ==
    IF value = None THEN Bytes(<<255, 255, 255, 255>>)
    ELSE extend_from_slice(Wire32(NInt(VLen(value[1]))), value[1])

\* the values before the first one that is too long
RECURSIVE ValuesOnWire(_)
ValuesOnWire(s) ==
    IF s = <<>> \/ TooLong(s[1].v) THEN <<>>
    ELSE extend_from_slice(VRepeat(ValueOnWire(s[1].v), s[1].n), ValuesOnWire(Tail(s)))

FValues(s) ==
    IF TooMany(s) THEN [err |-> ValueTooLarge, bytes |-> <<>>]
    ELSE [err |-> IF \E i \in 1..Len(s) : TooLong(s[i].v) THEN ValueTooLarge ELSE OK,
          bytes |-> extend_from_slice(Wire16(NInt(SLen(s))), ValuesOnWire(s))]

Fields(m) ==
    CASE m.kind = "Bind" ->
            <<FText(m.portal), FText(m.statement), FInt16s(m.formats),
              FValues(m.values), FInt16s(m.result_formats)>>
      [] m.kind = "CancelRequest" ->
            <<FInt32(80877102), FInt32(m.process_id), FInt32(m.secret_key)>>
      [] m.kind = "Close" -> <<FByte(m.variant), FText(m.name)>>
      [] m.kind = "CopyData" -> <<FRaw(m.data)>>
      [] m.kind = "CopyDone" -> <<>>
      [] m.kind = "CopyFail" -> <<FText(m.message)>>
      [] m.kind = "Describe" -> <<FByte(m.variant), FText(m.name)>>
      [] m.kind = "Execute" -> <<FText(m.portal), FInt32(m.max_rows)>>
      [] m.kind = "Parse" -> <<FText(m.name), FText(m.query), FOids(m.param_types)>>

TagOf(m) ==
    CASE m.kind = "Bind" -> Bytes(<<66>>)
      [] m.kind = "CancelRequest" -> <<>>
      [] m.kind = "Close" -> Bytes(<<67>>)
      [] m.kind = "CopyData" -> Bytes(<<100>>)
      [] m.kind = "CopyDone" -> Bytes(<<99>>)
      [] m.kind = "CopyFail" -> Bytes(<<102>>)
      [] m.kind = "Describe" -> Bytes(<<68>>)
      [] m.kind = "Execute" -> Bytes(<<69>>)
      [] m.kind = "Parse" -> Bytes(<<80>>)

\* the index of the first field that cannot be sent, Len(fs) + 1 when all can
FirstBad(fs) ==
    IF \A i \in 1..Len(fs) : fs[i].err = OK THEN Len(fs) + 1
    ELSE CHOOSE i \in 1..Len(fs) :
            fs[i].err # OK /\ \A j \in 1..(i - 1) : fs[j].err = OK

\* the bytes of the fields fs[1] .. fs[k] one after the other
RECURSIVE Joined(_, _)
Joined(fs, k) ==
    IF k = 0 THEN <<>> ELSE extend_from_slice(Joined(fs, k - 1), fs[k].bytes)

Valid(m) == FirstBad(Fields(m)) > Len(Fields(m))

\* what reaches the wire of the payload: every field up to the first bad one
Sent(m) ==
    IF Valid(m) THEN Joined(Fields(m), Len(Fields(m)))
    ELSE Joined(Fields(m), FirstBad(Fields(m)))

\* the frame's length: the four bytes of the length field and the payload
FrameLen(m) == NAdd(N(4), VLen(Sent(m)))

Fits(m) == NLeq(FrameLen(m), N(2147483647))

\* the value of the four bytes at offset i of v, when it is below 2^31
LengthAt(v, i) ==
    LET f == Flat(VSlice(v, i, NAdd(i, N(4))))
    IN  ((f[1] * 256 + f[2]) * 256 + f[3]) * 256 + f[4]

IsWrite == res # NotCalled /\ msg.kind # "write_cstr"

\* what the call appended, and where its length field starts
Appended == VDrop(buf, VLen(pre))
LenFieldAt == NAdd(VLen(pre), VLen(TagOf(msg)))

-----------------------------------------------------------------------------
(* the claims *)

HasZero(t) == \E i \in 1..Len(t) : t[i].b = 0

Cat(a, b) == extend_from_slice(a, b)

\* the fragment a failed payload step leaves: tag, four zero bytes, fields so far
Fragment(m, fs, k) == Cat(Cat(TagOf(m), Bytes(<<0, 0, 0, 0>>)), Joined(fs, k))

\* C1: after a successful write() the four-byte length field of the frame, read
\* big-endian, equals the number of bytes the call appended less the tag byte (less
\* nothing for CancelRequest): 4 plus the payload size.
C1_LengthField ==
    (IsWrite /\ res = OK) =>
        /\ NLeq(NAdd(LenFieldAt, N(4)), VLen(buf))
        /\ VAt(buf, LenFieldAt) < 128
        /\ N(LengthAt(buf, LenFieldAt)) = NSub(VLen(Appended), VLen(TagOf(msg)))
        /\ N(LengthAt(buf, LenFieldAt)) = NAdd(N(4), VLen(Sent(msg)))

C1_Witness ==
    /\ IsWrite /\ res = OK /\ pre # <<>>
    /\ msg.kind = "Bind" /\ msg.portal # <<>> /\ msg.values # <<>>

\* C2 as the spec states it: a byte payload (CopyData's data, each present value of
\* Bind, the other fields valid) of up to 2^31 - 1 bytes is encoded successfully, and
\* one of 2^31 bytes fails with ValueTooLarge.
C2_UpToI32MaxSucceeds ==
    /\ (IsWrite /\ msg.kind = "CopyData") =>
          IF NLeq(VLen(msg.data), N(2147483647)) THEN res = OK ELSE res = ValueTooLarge
    /\ (IsWrite /\ msg.kind = "Bind" /\ FirstBad(Fields(msg)) >= 4 /\ ~TooMany(msg.values)
          /\ ~TooMany(msg.result_formats)) =>
          IF \A i \in 1..Len(msg.values) : ~TooLong(msg.values[i].v)
          THEN res = OK ELSE res = ValueTooLarge

\* C2, amended: the encoding succeeds exactly while the frame length, 4 plus the
\* payload, is at most 2^31 - 1.  CopyData.write succeeds for up to 2^31 - 5 bytes of
\* data and fails with ValueTooLarge from 2^31 - 4 bytes on; Bind.write, its other
\* fields valid, succeeds exactly if every present value has at most 2^31 - 1 bytes
\* and the frame length is at most 2^31 - 1, and fails with ValueTooLarge otherwise.
C2_FrameMustFit ==
    /\ (IsWrite /\ msg.kind = "CopyData") =>
          IF NLeq(VLen(msg.data), N(2147483643)) THEN res = OK ELSE res = ValueTooLarge
    /\ (IsWrite /\ msg.kind = "Bind" /\ FirstBad(Fields(msg)) >= 4 /\ ~TooMany(msg.values)
          /\ ~TooMany(msg.result_formats)) =>
          IF (\A i \in 1..Len(msg.values) : ~TooLong(msg.values[i].v)) /\ Fits(msg)
          THEN res = OK ELSE res = ValueTooLarge

C2_Witness ==
    /\ IsWrite /\ msg.kind = "CopyData" /\ res = OK
    /\ VLen(msg.data) = N(2147483643)

\* the fields of a message that are sent with a 16-bit count, by index in wire order
Counted(m) ==
    IF m.kind = "Bind" THEN {3, 4, 5} ELSE IF m.kind = "Parse" THEN {3} ELSE {}

CountedSeq(m, i) ==
    IF m.kind = "Parse" THEN m.param_types
    ELSE IF i = 3 THEN m.formats ELSE IF i = 4 THEN m.values ELSE m.result_formats

OthersValid(m, i) == \A j \in (1..Len(Fields(m))) \ {i} : Fields(m)[j].err = OK

\* where the count of field i of the last message starts
CountAt(i) == NAdd(NAdd(LenFieldAt, N(4)), VLen(Joined(Fields(msg), i - 1)))

CountWritten(i) ==
    /\ NLeq(NAdd(CountAt(i), N(2)), VLen(buf))
    /\ Flat(VSlice(buf, CountAt(i), NAdd(CountAt(i), N(2))))
          = <<NInt(SLen(CountedSeq(msg, i))) \div 256, NInt(SLen(CountedSeq(msg, i))) % 256>>

NothingOfField(i) == Appended = Fragment(msg, Fields(msg), i - 1)

\* C3 as the spec states it: with every other field valid, a sequence of 0 to 65535
\* elements makes write() succeed, its count written as that big-endian 16-bit value;
\* one of 65536 elements makes it fail with ValueTooLarge, nothing of it appended.
C3_CountUpToU16MaxSucceeds ==
    IsWrite => \A i \in Counted(msg) :
        /\ (~TooMany(CountedSeq(msg, i)) /\ Valid(msg)) => (res = OK /\ CountWritten(i))
        /\ (TooMany(CountedSeq(msg, i)) /\ OthersValid(msg, i)) =>
              (res = ValueTooLarge /\ NothingOfField(i))

\* C3, amended: the same, the success for 0 to 65535 elements holding provided that
\* the frame length, 4 plus the payload, is at most 2^31 - 1.
C3_CountUpToU16MaxFits ==
    IsWrite => \A i \in Counted(msg) :
        /\ (~TooMany(CountedSeq(msg, i)) /\ Valid(msg) /\ Fits(msg)) =>
              (res = OK /\ CountWritten(i))
        /\ (TooMany(CountedSeq(msg, i)) /\ OthersValid(msg, i)) =>
              (res = ValueTooLarge /\ NothingOfField(i))

C3_Witness ==
    /\ IsWrite /\ msg.kind = "Bind" /\ res = OK
    /\ SLen(msg.values) = N(65535) /\ SLen(msg.formats) = N(65535)

\* the textual fields of a message
Texts(m) ==
    CASE m.kind = "Bind" -> {m.portal, m.statement}
      [] m.kind = "Close" -> {m.name}
      [] m.kind = "CopyFail" -> {m.message}
      [] m.kind = "Describe" -> {m.name}
      [] m.kind = "Execute" -> {m.portal}
      [] m.kind = "Parse" -> {m.name, m.query}
      [] OTHER -> {}

\* C4: a write() of a message one of whose textual fields contains a zero byte, at
\* whatever place, fails with EmbeddedNull.
C4_ZeroByteRejected ==
    (IsWrite /\ \E t \in Texts(msg) : HasZero(t)) => res = EmbeddedNull

C4_Witness ==
    /\ IsWrite /\ msg.kind = "Parse" /\ res = EmbeddedNull
    /\ msg.name = Bytes(<<115>>) /\ msg.query = Bytes(<<97, 0, 97>>)

\* C5: write_cstr of a text that contains a zero byte fails with the embedded-null
\* condition and leaves the buffer as it was.
C5_CStrFailureLeavesBuffer ==
    (msg.kind = "write_cstr" /\ HasZero(msg.s)) => (res = EmbeddedNull /\ buf = pre)

C5_Witness ==
    /\ msg.kind = "write_cstr" /\ msg.s = Bytes(<<97, 0, 97>>)
    /\ res = EmbeddedNull /\ pre # <<>>

\* C6: when the payload step fails, nothing is rolled back: the buffer holds what it
\* held before the call, then the tag byte (if any), four zero bytes and the bytes
\* of the fields written before the failure, and is longer than before the call.
C6_NoRollback ==
    (IsWrite /\ res # OK /\ ~Valid(msg)) =>
        /\ buf = Cat(pre, Fragment(msg, Fields(msg), FirstBad(Fields(msg))))
        /\ VTake(buf, VLen(pre)) = pre
        /\ Flat(VSlice(buf, LenFieldAt, NAdd(LenFieldAt, N(4)))) = <<0, 0, 0, 0>>
        /\ NLt(VLen(pre), VLen(buf))

C6_Witness ==
    /\ IsWrite /\ msg.kind = "Bind" /\ res = ValueTooLarge /\ pre # <<>>
    /\ FirstBad(Fields(msg)) = 4 /\ ~TooMany(msg.values) /\ ~TooLong(msg.values[1].v)
    /\ msg.formats # <<>>

\* C7: the first field in wire order that cannot be sent decides the error of the
\* call, and no byte of a later field is appended.
C7_FirstBadFieldDecides ==
    (IsWrite /\ ~Valid(msg)) =>
        /\ res = Fields(msg)[FirstBad(Fields(msg))].err
        /\ VLen(Appended)
             = NAdd(NAdd(VLen(TagOf(msg)), N(4)),
                    VLen(Joined(Fields(msg), FirstBad(Fields(msg)))))

C7_Witness ==
    /\ IsWrite /\ msg.kind = "Parse" /\ res = EmbeddedNull
    /\ ~HasZero(msg.name) /\ HasZero(msg.query) /\ TooMany(msg.param_types)

\* the frame each message of the history makes in a fresh, empty buffer
Frames == [i \in 1..Len(hist) |-> write(hist[i].msg, <<>>).buf]

RECURSIVE JoinedFrames(_)
JoinedFrames(k) == IF k = 0 THEN <<>> ELSE Cat(JoinedFrames(k - 1), Frames[k])

\* the frame that starts at pos, its length field at lenpos; << >> if there is none
FrameAt(v, pos, lenpos) ==
    IF NLeq(NAdd(lenpos, N(4)), VLen(v)) /\ VAt(v, lenpos) < 128
    THEN IF LengthAt(v, lenpos) >= 4
            /\ NLeq(NAdd(lenpos, N(LengthAt(v, lenpos))), VLen(v))
         THEN VSlice(v, pos, NAdd(lenpos, N(LengthAt(v, lenpos))))
         ELSE <<>>
    ELSE <<>>

\* the buffer cut into frames by tag and length field; a frame that starts with a
\* zero byte has no tag
RECURSIVE Walk(_)
Walk(v) ==
    IF v = <<>> THEN <<>>
    ELSE IF FrameAt(v, <<>>, IF v[1].b = 0 THEN <<>> ELSE N(1)) = <<>> THEN << <<>> >>
    ELSE <<FrameAt(v, <<>>, IF v[1].b = 0 THEN <<>> ELSE N(1))>>
         \o Walk(VDrop(v, VLen(FrameAt(v, <<>>, IF v[1].b = 0 THEN <<>> ELSE N(1)))))

AllOk == \A i \in 1..Len(hist) : hist[i].res = OK

\* C8: a write() only appends: the bytes the buffer held stay as they were, and a
\* successful call appends the frame the message makes in an empty buffer.  After
\* successful calls only, the buffer is the frames in call order, and cutting it by
\* tag and length field gives these frames back.
C8_PureAppend ==
    IsWrite =>
        /\ NLeq(VLen(pre), VLen(buf))
        /\ VTake(buf, VLen(pre)) = pre
        /\ res = OK => Appended = write(msg, <<>>).buf
        /\ AllOk => (buf = JoinedFrames(Len(hist)) /\ Walk(buf) = Frames)

C8_Witness ==
    /\ Len(hist) = 2 /\ AllOk
    /\ hist[1].msg.kind = "CancelRequest" /\ hist[2].msg.kind = "Bind"
    /\ hist[2].msg.values # <<>>

\* C9: write_cstr of a text without a zero byte, the empty text included, succeeds
\* and appends the bytes of the text and one zero byte: the buffer grows by
\* len(text) + 1 bytes.
C9_CStrAppendsTextAndZero ==
    (msg.kind = "write_cstr" /\ ~HasZero(msg.s)) =>
        /\ res = OK
        /\ VLen(buf) = NAdd(NAdd(VLen(pre), VLen(msg.s)), N(1))
        /\ VTake(buf, VLen(pre)) = pre
        /\ Flat(Appended) = Flat(msg.s) \o <<0>>

C9_Witness ==
    /\ msg.kind = "write_cstr" /\ msg.s = Bytes(<<97, 98>>) /\ res = OK /\ pre # <<>>

\* where the first parameter value of the last Bind starts
ValuesAt == NAdd(CountAt(4), N(2))

\* C10: Bind.write encodes the parameter values in order, an absent value as the
\* length -1 (FF FF FF FF) and nothing more, a present value of n bytes as n in four
\* big-endian bytes and then the n bytes.
C10_ValuesOnWire ==
    (IsWrite /\ msg.kind = "Bind" /\ FirstBad(Fields(msg)) >= 4 /\ ~TooMany(msg.values)) =>
        /\ NLeq(NAdd(ValuesAt, VLen(ValuesOnWire(msg.values))), VLen(buf))
        /\ VSlice(buf, ValuesAt, NAdd(ValuesAt, VLen(ValuesOnWire(msg.values))))
              = ValuesOnWire(msg.values)
        /\ (FirstBad(Fields(msg)) = 4 \/ TooMany(msg.result_formats)) =>
              VLen(buf) = NAdd(ValuesAt, VLen(ValuesOnWire(msg.values)))

C10_Witness ==
    /\ IsWrite /\ msg.kind = "Bind" /\ res = OK
    /\ msg.values = Elems(<<None, Some(Bytes(<<255, 0>>)), Some(<<>>), Some(Bytes(<<7>>))>>)
    /\ msg.formats # <<>>

====
